---- MODULE Spec2Model ----
(***************************************************************************)
(* querySelectorPerpetual (index.js): a registration call that scans the   *)
(* document for elements matching a selector, installs (once per process)  *)
(* a MutationObserver, and returns a handle whose chain methods append     *)
(* array operations to the registration's pipeline.                        *)
(*                                                                         *)
(* The model holds the DOM tree, the registrations made so far (each with  *)
(* the closure variables of its call), the global observer slot, the       *)
(* observer's record queue, and history variables that log every pipeline  *)
(* invocation and every insertion made under a registration's scope root.  *)
(***************************************************************************)
EXTENDS Integers, Sequences, FiniteSets, TLC

(* ------------------------------ bounds --------------------------------- *)

MaxRegs == 2      \* registration calls made in one run
MaxOps == 2       \* chain calls made in one run
MaxEdits == 2     \* DOM edits (append / remove) made in one run
MaxCalls == 4     \* calls a script makes in one run: registrations, chain
                  \* calls and DOM edits together

(* ------------------------------ the DOM -------------------------------- *)

\* The page of test.js beforeEach: body > #container > two .item divs; plus
\* the nodes a script creates and has not attached yet.
Nodes == {"document", "body", "container", "w", "i1", "i2", "i3", "t1"}

ParentNodes == {"document", "body", "container", "w"}

\* the nodes a script moves: a present item, the new item, a wrapper div
\* and a text node
MovableNodes == {"w", "i1", "i3", "t1"}

\* where a script puts a node: the new item anywhere, the others in one place
AppendTargets(n) ==
  CASE n = "i3" -> {"body", "container", "w"}
    [] n = "w" -> {"body"}
    [] OTHER -> {"container"}

\* the nodes a script removes
RemovableNodes == {"i1", "i3"}

NoNode == "none"

ELEMENT_NODE == 1

nodeType(n) ==
  CASE n = "document" -> 9
    [] n = "t1" -> 3
    [] OTHER -> ELEMENT_NODE

textContent(n) ==
  CASE n = "i1" -> "Item 1"
    [] n = "i2" -> "Item 2"
    [] n = "i3" -> "Item 0"
    [] n = "t1" -> "text"
    [] OTHER -> ""

Selectors == {".item"}

\* element.matches(selector)
matches(n, selector) ==
  CASE selector = ".item" -> n \in {"i1", "i2", "i3"}
    [] OTHER -> FALSE

VARIABLES
  children,       \* the tree: parent node -> sequence of child nodes
  regs,           \* one record per call of querySelectorPerpetual
  observer,       \* querySelectorPerpetual.observer (the global slot)
  recordQueue,    \* the observer's pending MutationRecords
  transient,      \* nodes carrying a transient registered observer
  edits,          \* number of DOM edits made
  chained,        \* number of chain calls made
  returned,       \* per registration: value returned by the last chain call
  pipelineLog,    \* history: every applyOperations invocation, in order
  sameTurn,       \* history: per registration, no YieldToEventLoop step yet
  atRegistration, \* history: per registration, the tree as it was at the call
  pendingIns,     \* history: per registration, the nodes appended since the
                  \* call and since the last delivery, each with whether
                  \* its new parent was inside the scope root
  delivered       \* history: per registration, the same, delivery done

vars == <<children, regs, observer, recordQueue, transient, edits, chained, returned,
          pipelineLog, sameTurn, atRegistration, pendingIns, delivered>>

\* the calls made so far
callsMade == Len(regs) + chained + edits

RECURSIVE SeqToSet(_)
SeqToSet(s) == IF s = <<>> THEN {} ELSE {Head(s)} \cup SeqToSet(Tail(s))

parentOf(ch, n) ==
  IF \E p \in ParentNodes : n \in SeqToSet(ch[p])
    THEN CHOOSE p \in ParentNodes : n \in SeqToSet(ch[p])
    ELSE NoNode

RECURSIVE inclusiveAncestors(_, _)
inclusiveAncestors(ch, n) ==
  IF n = NoNode THEN {} ELSE {n} \cup inclusiveAncestors(ch, parentOf(ch, n))

\* the nodes of root's subtree, root included
inclusiveDescendants(ch, root) ==
  {n \in Nodes : root \in inclusiveAncestors(ch, n)}

\* tree order (preorder, depth first) of the descendants of a node
RECURSIVE preorderOfList(_, _)
preorderOfList(ch, list) ==
  IF list = <<>> THEN <<>>
  ELSE LET n == Head(list)
       IN  <<n>> \o (IF n \in ParentNodes THEN preorderOfList(ch, ch[n]) ELSE <<>>)
               \o preorderOfList(ch, Tail(list))

RECURSIVE SelectSeqBy(_, _)
SelectSeqBy(s, selector) ==
  IF s = <<>> THEN <<>>
  ELSE (IF nodeType(Head(s)) = ELEMENT_NODE /\ matches(Head(s), selector)
          THEN <<Head(s)>> ELSE <<>>) \o SelectSeqBy(Tail(s), selector)

\* root.querySelectorAll(selector): matching descendants in tree order
querySelectorAll(ch, root, selector) ==
  IF root \in ParentNodes
    THEN SelectSeqBy(preorderOfList(ch, ch[root]), selector)
    ELSE <<>>

(* ------------------- values, user functions, arrays -------------------- *)

\* JavaScript values that flow through a pipeline are strings here: a node
\* id, a text, "true"/"false", the name of a user function, or "undefined".
\* An accumulator is an array of such values or the value undefined.
Undefined == [type |-> "undefined"]

Arr(items) == [type |-> "array", items |-> items]

\* the object literal returned by querySelectorPerpetual (index.js 154-193)
Handle(r) == [type |-> "handle", reg |-> r]

\* the user functions of test.js and README.md
Funcs == {"spy", "textOf", "isItem1", "byText"}

\* Function.prototype.length: the number of declared parameters
FuncLength(f) ==
  CASE f = "spy" -> 0
    [] f = "textOf" -> 1
    [] f = "isItem1" -> 1
    [] f = "byText" -> 2

IsCallable(v) == v \in Funcs

textContentOf(v) == IF v \in Nodes THEN textContent(v) ELSE "undefined"

\* calling a one-argument user function
CallFunc(f, v) ==
  CASE f = "textOf" -> textContentOf(v)
    [] f = "isItem1" -> (IF textContentOf(v) = "Item 1" THEN "true" ELSE "false")
    [] OTHER -> "undefined"

toStringOf(v) ==
  IF v \in Nodes
    THEN (IF nodeType(v) = ELEMENT_NODE THEN "[object HTMLDivElement]"
          ELSE "[object Text]")
    ELSE v

\* position of a string in code-unit order, for the strings of the model
StrRank(s) ==
  CASE s = "" -> 0
    [] s = "Item 0" -> 1
    [] s = "Item 1" -> 2
    [] s = "Item 2" -> 3
    [] s = "[object HTMLDivElement]" -> 4
    [] s = "[object Text]" -> 5
    [] s = "false" -> 6
    [] s = "text" -> 7
    [] s = "true" -> 8
    [] OTHER -> 9

\* a.textContent.localeCompare(b.textContent), and the default comparison
\* of Array.prototype.sort when comparefn is undefined
Compare(comparefn, a, b) ==
  IF comparefn = "byText"
    THEN StrRank(textContentOf(a)) - StrRank(textContentOf(b))
    ELSE StrRank(toStringOf(a)) - StrRank(toStringOf(b))

RECURSIVE InsertSorted(_, _, _)
InsertSorted(comparefn, x, sorted) ==
  IF sorted = <<>> THEN <<x>>
  ELSE IF Compare(comparefn, x, Head(sorted)) < 0 THEN <<x>> \o sorted
  ELSE <<Head(sorted)>> \o InsertSorted(comparefn, x, Tail(sorted))

\* a stable sort: equal items keep their order
RECURSIVE SortItems(_, _)
SortItems(comparefn, items) ==
  IF items = <<>> THEN <<>>
  ELSE InsertSorted(comparefn, items[Len(items)],
                    SortItems(comparefn, SubSeq(items, 1, Len(items) - 1)))

RECURSIVE MapItems(_, _)
MapItems(f, items) ==
  IF items = <<>> THEN <<>>
  ELSE <<CallFunc(f, Head(items))>> \o MapItems(f, Tail(items))

RECURSIVE FilterItems(_, _)
FilterItems(f, items) ==
  IF items = <<>> THEN <<>>
  ELSE (IF CallFunc(f, Head(items)) = "true" THEN <<Head(items)>> ELSE <<>>)
         \o FilterItems(f, Tail(items))

\* the invocations of callback f made while iterating items
RECURSIVE CallsOn(_, _)
CallsOn(f, items) ==
  IF items = <<>> THEN <<>>
  ELSE <<[func |-> f, arg |-> Head(items)]>> \o CallsOn(f, Tail(items))

\* CreateListFromArrayLike(func), the second argument of Function.prototype
\* .apply: func.length entries, func[0], func[1], ..., every one undefined
CreateListFromArrayLike(func) == [i \in 1..FuncLength(func) |-> "undefined"]

\* the first argument of a call, undefined when the list is empty
FirstArg(args) == IF Len(args) >= 1 THEN args[1] ELSE "undefined"

\* Array.prototype[name] called on thisValue with the argument list args.
\* Result: whether a TypeError was thrown, the returned value, and the
\* invocations of user functions made.
ArrayPrototype(name, thisValue, args) ==
  LET callbackfn == FirstArg(args)
      Throw == [threw |-> TRUE, value |-> Undefined, calls |-> <<>>]
  IN  IF thisValue.type # "array" THEN Throw
      ELSE IF name = "sort"
        THEN IF callbackfn # "undefined" /\ ~IsCallable(callbackfn) THEN Throw
             ELSE IF callbackfn = "byText" /\ Len(thisValue.items) >= 2
                       /\ \E i \in 1..Len(thisValue.items) : thisValue.items[i] \notin Nodes
               THEN Throw
             ELSE [threw |-> FALSE,
                   value |-> Arr(SortItems(callbackfn, thisValue.items)),
                   calls |-> <<>>]
      ELSE IF ~IsCallable(callbackfn) THEN Throw
      ELSE [threw |-> FALSE,
            value |-> CASE name = "forEach" -> Undefined
                        [] name = "map" -> Arr(MapItems(callbackfn, thisValue.items))
                        [] name = "filter" -> Arr(FilterItems(callbackfn, thisValue.items)),
            calls |-> CallsOn(callbackfn, thisValue.items)]

\* the argument list index.js 66 hands to the array method
ApplyArguments(func) == CreateListFromArrayLike(func)

\* the accumulator of the reduce before the first operation:
\* elementArray = [element] (index.js 60), with no step taken yet
InitialValue(element) ==
  [threw |-> FALSE, value |-> Arr(<<element>>), calls |-> <<>>, steps |-> <<>>]

\* one turn of the reduce callback, as the step it leaves behind
StepOf(operation, input, step) ==
  [operation |-> operation, input |-> input,
   threw |-> step.threw, output |-> step.value]

\* the reduce walking the operations from the last declared to the first
RECURSIVE ReduceOperations_LastFirst(_, _)
ReduceOperations_LastFirst(operations, prev) ==
  IF operations = <<>> \/ prev.threw THEN prev
  ELSE LET operation == operations[Len(operations)]
           step == ArrayPrototype(operation.name, prev.value,
                                  ApplyArguments(operation.func))
       IN  ReduceOperations_LastFirst(SubSeq(operations, 1, Len(operations) - 1),
             [threw |-> step.threw, value |-> step.value,
              calls |-> prev.calls \o step.calls,
              steps |-> Append(prev.steps, StepOf(operation, prev.value, step))])

\* the reduce with each turn's exception caught: the walk goes on
RECURSIVE ReduceOperations_KeepGoing(_, _)
ReduceOperations_KeepGoing(operations, prev) ==
  IF operations = <<>> THEN prev
  ELSE LET operation == Head(operations)
           step == ArrayPrototype(operation.name, prev.value,
                                  ApplyArguments(operation.func))
       IN  ReduceOperations_KeepGoing(Tail(operations),
             [threw |-> FALSE, value |-> step.value,
              calls |-> prev.calls \o step.calls,
              steps |-> Append(prev.steps, StepOf(operation, prev.value, step))])

\* operations.reduce(function (prev, operation) {...}, elementArray): a
\* throwing step ends the reduce, the exception leaves applyOperations
RECURSIVE ReduceOperations(_, _)
ReduceOperations(operations, prev) ==
  IF operations = <<>> \/ prev.threw THEN prev
  ELSE LET operation == Head(operations)
           step == ArrayPrototype(operation.name, prev.value,
                                  ApplyArguments(operation.func))
       IN  ReduceOperations(Tail(operations),
             [threw |-> step.threw, value |-> step.value,
              calls |-> prev.calls \o step.calls,
              steps |-> Append(prev.steps, StepOf(operation, prev.value, step))])

\* the walk over the pipeline as it was when it held one operation
applyOperations_FirstDeclared(operations, element) ==
  ReduceOperations(IF operations = <<>> THEN <<>> ELSE <<Head(operations)>>,
                   InitialValue(element))

applyOperations(operations, element) ==
  ReduceOperations(operations, InitialValue(element))

(* --------------------------- registration ------------------------------ *)

\* the nodes the prototype method is called on (index.js 199-205)
Roots == {"container"}

EmptyObject == [k \in {} |-> TRUE]

\* the options objects a caller passes: none (README.md 47), or one of the
\* three options set away from its default (README.md 85, 93)
UserOptions ==
  {EmptyObject, [matchExisting |-> FALSE], [matchReappearance |-> TRUE],
   [rootElement |-> "container"]}

\* a registration call: the top-level function with an options object, or
\* the prototype method of a node with no options argument
RegistrationCalls ==
  ({"window"} \X UserOptions) \cup (Roots \X {[type |-> "undefined"]})

\* options || {}
OrEmptyObject(options) ==
  IF options = [type |-> "undefined"] THEN EmptyObject ELSE options

\* Object.assign(target, source)
ObjectAssign(target, source) ==
  [k \in DOMAIN target \cup DOMAIN source |->
     IF k \in DOMAIN source THEN source[k] ELSE target[k]]

\* document.querySelector("body")
defaultOptions ==
  [matchExisting |-> TRUE, matchReappearance |-> FALSE, rootElement |-> "body"]

\* the options the top-level function receives: the caller's own when it is
\* called directly, with rootElement overwritten by `this` when it is called
\* as Document.prototype / Element.prototype.querySelectorPerpetual
PassedOptions(thisValue, userOptions) ==
  IF thisValue = "window" THEN OrEmptyObject(userOptions)
  ELSE ObjectAssign(OrEmptyObject(userOptions), [rootElement |-> thisValue])

NoObserver == [reg |-> 0, target |-> NoNode]

\* the seen check left out: every matching candidate is processed
alreadyTracked_NoCheck(options, elementInvocationMap, node) == FALSE

\* the seen check of index.js 99 and 140
alreadyTracked(options, elementInvocationMap, node) ==
  ~options.matchReappearance /\ node \in elementInvocationMap

\* the scan made whatever matchExisting says
existingElements_Always(ch, options, selector) ==
  querySelectorAll(ch, "document", selector)

\* the scan stopping at the first match (querySelector for querySelectorAll)
existingElements_FirstOnly(ch, options, selector) ==
  IF options.matchExisting
    THEN LET all == querySelectorAll(ch, "document", selector)
         IN  IF all = <<>> THEN <<>> ELSE <<Head(all)>>
    ELSE <<>>

\* the elements the registration call walks (index.js 126-132)
existingElements(ch, options, selector) ==
  IF options.matchExisting
    THEN querySelectorAll(ch, "document", selector)
    ELSE <<>>

\* the test of the added node left out
isMatchingElement_AnyNode(node, selector) == TRUE

\* node.nodeType === Node.ELEMENT_NODE && node.matches(selector)
isMatchingElement(node, selector) ==
  nodeType(node) = ELEMENT_NODE /\ matches(node, selector)

\* the mark made only when the pipeline has returned
seenAfter_OnReturn(elementInvocationMap, node, out) ==
  IF out.threw THEN elementInvocationMap ELSE elementInvocationMap \cup {node}

\* elementInvocationMap.set(node, true) stands before applyOperations
\* (index.js 105 and 108, 146 and 149): the mark is made whatever the
\* outcome out of the pipeline invocation is
seenAfter(elementInvocationMap, node, out) == elementInvocationMap \cup {node}

\* Processing of a list of candidate nodes by registration number r, whose
\* closure variables are reg.  st carries the seen-set, the log of pipeline
\* invocations and whether an exception has left the enclosing forEach.
\* Candidates of a mutation batch are first tested for node type and
\* selector (index.js 91); those of the initial scan are not.
RECURSIVE dispatchAll(_, _, _, _, _)
dispatchAll(r, reg, nodes, source, st) ==
  IF nodes = <<>> \/ st.threw THEN st
  ELSE LET node == Head(nodes)
           rest == Tail(nodes)
       IN  IF source = "mutation" /\ ~isMatchingElement(node, reg.selector)
             THEN dispatchAll(r, reg, rest, source, st)
           ELSE IF alreadyTracked(reg.options, st.map, node)
             THEN dispatchAll(r, reg, rest, source, st)
           ELSE LET out == applyOperations(reg.operations, node)
                IN  dispatchAll(r, reg, rest, source,
                      [map |-> seenAfter(st.map, node, out),
                       log |-> Append(st.log,
                                 [reg |-> r, element |-> node, source |-> source,
                                  operations |-> reg.operations, outcome |-> out]),
                       threw |-> out.threw])

\* every registration call installing its own observer on its own target
installObserver_EveryCall(current, r, target) == [reg |-> r, target |-> target]

\* if (!querySelectorPerpetual.observer) { ... new MutationObserver(...);
\* observer.observe(target, ...) }: the property of the function object is
\* set by the first call and only read by the later ones
installObserver(current, r, target) ==
  IF current = NoObserver THEN [reg |-> r, target |-> target] ELSE current

\* querySelectorPerpetual(selector, options), the whole call
Register(selector, thisValue, userOptions) ==
  /\ Len(regs) < MaxRegs
  /\ callsMade < MaxCalls
  /\ LET r == Len(regs) + 1
         options == ObjectAssign(defaultOptions, PassedOptions(thisValue, userOptions))
         target == options.rootElement
         fresh == [selector |-> selector, options |-> options,
                   elementInvocationMap |-> {}, operations |-> <<>>]
         scan == dispatchAll(r, fresh, existingElements(children, options, selector),
                             "scan", [map |-> {}, log |-> <<>>, threw |-> FALSE])
     IN  /\ observer' = installObserver(observer, r, target)
         /\ regs' = Append(regs, [fresh EXCEPT !.elementInvocationMap = scan.map])
         /\ pipelineLog' = pipelineLog \o scan.log
         /\ returned' = Append(returned, Handle(r))
         /\ sameTurn' = Append(sameTurn, TRUE)
         /\ atRegistration' = Append(atRegistration,
              [scope |-> inclusiveDescendants(children, target),
               matching |-> querySelectorAll(children, target, selector)])
         /\ pendingIns' = Append(pendingIns, <<>>)
         /\ delivered' = Append(delivered, <<>>)
  /\ UNCHANGED <<children, recordQueue, transient, edits, chained>>

(* ----------------------------- chain calls ----------------------------- *)

\* the methods the returned object has (index.js 154-193)
HandleMethods == {"forEach", "map", "filter", "sort"}

\* the value of a call that ended in a TypeError
TypeError == [type |-> "TypeError"]

\* the (method, function) pairs of test.js, and a call of each further
\* chain function README.md lists
ChainCalls ==
  {<<"forEach", "spy">>, <<"map", "textOf">>, <<"filter", "isItem1">>,
   <<"sort", "byText">>, <<"reduce", "byText">>, <<"every", "isItem1">>,
   <<"some", "isItem1">>, <<"find", "isItem1">>}

addOperation(operations, name, func) ==
  Append(operations, [name |-> name, func |-> func])

\* handle.forEach(func), handle.map(func), handle.filter(func),
\* handle.sort(func): push the operation, return this.  A name the handle
\* has no property for reads as undefined, and calling it is a TypeError:
\* nothing is pushed, nothing is returned.
Chain(r, name, func) ==
  /\ r \in 1..Len(regs)
  /\ chained < MaxOps
  /\ callsMade < MaxCalls
  /\ chained' = chained + 1
  /\ IF name \in HandleMethods
       THEN /\ regs' = [regs EXCEPT ![r].operations = addOperation(@, name, func)]
            /\ returned' = [returned EXCEPT ![r] = Handle(r)]
       ELSE /\ regs' = regs
            /\ returned' = [returned EXCEPT ![r] = TypeError]
  /\ UNCHANGED <<children, observer, recordQueue, transient, edits,
                 pipelineLog, sameTurn, atRegistration, pendingIns, delivered>>

(* ------------------------------ DOM edits ------------------------------ *)

Range(s) == {s[i] : i \in 1..Len(s)}

\* the node lists a script appends in one call: a single element, or a text
\* node followed by the new item (one record with two added nodes)
AppendLists == {<<n>> : n \in MovableNodes \ {"t1"}} \cup {<<"t1", "i3">>}

RECURSIVE Without(_, _)
Without(s, n) ==
  IF s = <<>> THEN <<>>
  ELSE (IF Head(s) = n THEN <<>> ELSE <<Head(s)>>) \o Without(Tail(s), n)

\* observe(target, {childList: true, subtree: true}) (index.js 117-120): a
\* change of parent's child list is recorded when the observed target, or a
\* node removed from the observed subtree since the last delivery, is an
\* inclusive ancestor of parent
isObserved(ch, tr, parent) ==
  /\ observer # NoObserver
  /\ inclusiveAncestors(ch, parent) \cap ({observer.target} \cup tr) # {}

MutationRecord(target, addedNodes, removedNodes) ==
  [target |-> target, addedNodes |-> addedNodes, removedNodes |-> removedNodes]

\* removal of node n from its parent, if it has one; dom is the tree, the
\* record queue and the transient observers
detach(dom, n) ==
  LET parent == parentOf(dom.children, n)
      seen == isObserved(dom.children, dom.transient, parent)
  IN  IF parent = NoNode THEN dom
      ELSE [children |-> [dom.children EXCEPT ![parent] = Without(@, n)],
            queue |-> IF seen
                        THEN Append(dom.queue, MutationRecord(parent, <<>>, <<n>>))
                        ELSE dom.queue,
            transient |-> IF seen THEN dom.transient \cup {n} ELSE dom.transient]

RECURSIVE detachAll(_, _)
detachAll(dom, ns) ==
  IF ns = <<>> THEN dom ELSE detachAll(detach(dom, Head(ns)), Tail(ns))

currentDom == [children |-> children, queue |-> recordQueue, transient |-> transient]

\* parent.appendChild(n) / parent.append(n1, ...): a node that has a parent
\* is first removed from it, then the nodes become the last children of
\* parent, in one record
AppendNodes(parent, ns) ==
  /\ edits < MaxEdits
  /\ callsMade < MaxCalls
  /\ \A i \in 1..Len(ns) :
       /\ parent \in AppendTargets(ns[i])
       /\ ns[i] \notin inclusiveAncestors(children, parent)
  /\ LET dom == detachAll(currentDom, ns)
     IN  /\ children' = [dom.children EXCEPT ![parent] = @ \o ns]
         /\ recordQueue' = IF isObserved(dom.children, dom.transient, parent)
                             THEN Append(dom.queue, MutationRecord(parent, ns, <<>>))
                             ELSE dom.queue
         /\ transient' = dom.transient
         /\ pendingIns' = [r \in 1..Len(regs) |->
              pendingIns[r] \o
                [i \in 1..Len(ns) |->
                   [node |-> ns[i],
                    underRoot |-> regs[r].options.rootElement
                                    \in inclusiveAncestors(dom.children, parent)]]]
  /\ edits' = edits + 1
  /\ UNCHANGED <<regs, observer, chained, returned, pipelineLog, sameTurn,
                 atRegistration, delivered>>

\* n.remove() / parent.removeChild(n)
RemoveNode(n) ==
  /\ edits < MaxEdits
  /\ callsMade < MaxCalls
  /\ n \in RemovableNodes
  /\ parentOf(children, n) # NoNode
  /\ LET dom == detach(currentDom, n)
     IN  /\ children' = dom.children
         /\ recordQueue' = dom.queue
         /\ transient' = dom.transient
  /\ edits' = edits + 1
  /\ UNCHANGED <<regs, observer, chained, returned, pipelineLog, sameTurn,
                 atRegistration, pendingIns, delivered>>

(* ------------------------ delivery of mutations ------------------------ *)

\* the walk taking each added node together with the subtree it brings
RECURSIVE addedNodesOf_WithDescendants(_)
addedNodesOf_WithDescendants(mutations) ==
  IF mutations = <<>> THEN <<>>
  ELSE preorderOfList(children, Head(mutations).addedNodes)
         \o addedNodesOf_WithDescendants(Tail(mutations))

\* mutations.forEach over mutation.addedNodes (index.js 82-85): the nodes
\* the records list, in order
RECURSIVE addedNodesOf(_)
addedNodesOf(mutations) ==
  IF mutations = <<>> THEN <<>>
  ELSE Head(mutations).addedNodes \o addedNodesOf(Tail(mutations))

\* the callback keeping its own seen-set per batch
observerCallback_FreshMap(r, reg, mutations) ==
  dispatchAll(r, reg, addedNodesOf(mutations), "mutation",
              [map |-> {}, log |-> <<>>, threw |-> FALSE])

\* the MutationObserver callback (index.js 78-112): it is the closure made by
\* the call that created the observer, so it reads that call's selector,
\* options, elementInvocationMap and operations
observerCallback(r, reg, mutations) ==
  dispatchAll(r, reg, addedNodesOf(mutations), "mutation",
              [map |-> reg.elementInvocationMap, log |-> <<>>, threw |-> FALSE])

\* The running script returns to the event loop after it has edited the
\* tree: the pending records are handed to the observer's callback in one
\* batch (none: no callback), and the transient observers are dropped.  A
\* return to the event loop with no edit made since the last one changes
\* nothing and is not a step.
YieldToEventLoop ==
  /\ \/ recordQueue # <<>>
     \/ transient # {}
     \/ \E r \in 1..Len(regs) : pendingIns[r] # <<>>
  /\ IF recordQueue # <<>>
       THEN LET r == observer.reg
                run == observerCallback(r, regs[r], recordQueue)
            IN  /\ regs' = [regs EXCEPT ![r].elementInvocationMap = run.map]
                /\ pipelineLog' = pipelineLog \o run.log
       ELSE UNCHANGED <<regs, pipelineLog>>
  /\ recordQueue' = <<>>
  /\ transient' = {}
  /\ sameTurn' = [r \in 1..Len(regs) |-> FALSE]
  /\ delivered' = [r \in 1..Len(regs) |-> delivered[r] \o pendingIns[r]]
  /\ pendingIns' = [r \in 1..Len(regs) |-> <<>>]
  /\ UNCHANGED <<children, observer, edits, chained, returned, atRegistration>>

(* --------------------------- specification ----------------------------- *)

Init ==
  /\ children = [p \in ParentNodes |->
                   CASE p = "document" -> <<"body">>
                     [] p = "body" -> <<"container">>
                     [] p = "container" -> <<"i1", "i2">>
                     [] OTHER -> <<>>]
  /\ regs = <<>>
  /\ observer = NoObserver
  /\ recordQueue = <<>>
  /\ transient = {}
  /\ edits = 0
  /\ chained = 0
  /\ returned = <<>>
  /\ pipelineLog = <<>>
  /\ sameTurn = <<>>
  /\ atRegistration = <<>>
  /\ pendingIns = <<>>
  /\ delivered = <<>>

Next ==
  \/ \E selector \in Selectors, call \in RegistrationCalls :
       Register(selector, call[1], call[2])
  \/ \E r \in 1..MaxRegs, call \in ChainCalls : Chain(r, call[1], call[2])
  \/ \E parent \in ParentNodes, ns \in AppendLists :
       AppendNodes(parent, ns)
  \/ \E n \in RemovableNodes : RemoveNode(n)
  \/ YieldToEventLoop

Spec == Init /\ [][Next]_vars

(* ------------------------ reading the history ------------------------- *)

Registrations == 1..Len(regs)

\* the positions of the pipeline log that belong to registration r
EntriesOf(r) == {i \in 1..Len(pipelineLog) : pipelineLog[i].reg = r}

\* how often registration r passed element e through its pipeline
TimesProcessed(r, e) ==
  Cardinality({i \in EntriesOf(r) : pipelineLog[i].element = e})

TimesProcessedBy(r, e, source) ==
  Cardinality({i \in EntriesOf(r) :
                 pipelineLog[i].element = e /\ pipelineLog[i].source = source})

\* how often user function f was invoked with argument e for registration r
TimesInvoked(r, f, e) ==
  Cardinality({<<i, j>> \in EntriesOf(r) \X (1..4) :
                 /\ j <= Len(pipelineLog[i].outcome.calls)
                 /\ pipelineLog[i].outcome.calls[j] = [func |-> f, arg |-> e]})

\* the elements registration r processed, in the order it processed them
RECURSIVE ElementsOf(_, _)
ElementsOf(r, log) ==
  IF log = <<>> THEN <<>>
  ELSE (IF Head(log).reg = r THEN <<Head(log).element>> ELSE <<>>)
         \o ElementsOf(r, Tail(log))

\* delivered insertions of e under the scope root of registration r
TimesInserted(r, e) ==
  Cardinality({i \in 1..Len(delivered[r]) :
                 delivered[r][i].node = e /\ delivered[r][i].underRoot})

\* the nodes appended anywhere after the call of registration r, delivered
AppendedSince(r) == {delivered[r][i].node : i \in 1..Len(delivered[r])}

\* [e].k1(f1)...kn(fn): each array method called with the user function as
\* its callback
RECURSIVE ArrayChain(_, _)
ArrayChain(operations, prev) ==
  IF operations = <<>> \/ prev.threw THEN prev
  ELSE LET step == ArrayPrototype(Head(operations).name, prev.value,
                                  <<Head(operations).func>>)
       IN  ArrayChain(Tail(operations),
             [threw |-> step.threw, value |-> step.value,
              calls |-> prev.calls \o step.calls,
              steps |-> Append(prev.steps,
                               StepOf(Head(operations), prev.value, step))])

(* ------------------------------- claims -------------------------------- *)

\* C1 (as stated): with matchExisting true, a forEach chained on the handle
\* in the registering turn has had its function invoked exactly once for
\* each element that matched the selector at registration time.
C1_ChainedForEachSeesExisting ==
  \A r \in Registrations :
    (/\ regs[r].options.matchExisting
     /\ sameTurn[r]
     /\ regs[r].operations # <<>>
     /\ regs[r].operations[1].name = "forEach")
    => \A e \in Range(atRegistration[r].matching) :
         TimesInvoked(r, regs[r].operations[1].func, e) = 1

\* C2 (as stated): every pipeline invocation for an element e computes
\* [e].k1(f1)...kn(fn) with the user functions as the callbacks: same
\* result, same invocations of the user functions (forEach(f) alone: f is
\* invoked exactly once, with e).
C2_PipelineIsArrayChain ==
  \A i \in 1..Len(pipelineLog) :
    pipelineLog[i].outcome =
      ArrayChain(pipelineLog[i].operations,
                 InitialValue(pipelineLog[i].element))

\* C3 (as stated): for every registration with matchReappearance false, a
\* matching element whose insertion under the scope root has been delivered
\* has been passed through that registration's pipeline exactly once.
C3_InsertedProcessedOnce ==
  \A r \in Registrations : \A e \in Nodes :
    (/\ ~regs[r].options.matchReappearance
     /\ TimesInserted(r, e) >= 1
     /\ nodeType(e) = ELEMENT_NODE /\ matches(e, regs[r].selector))
    => TimesProcessed(r, e) = 1

\* C4: with matchReappearance false, an element that is in a registration's
\* seen-set is not passed through that registration's pipeline by any later
\* step.
C4_SeenNeverReprocessed ==
  [][\A r \in Registrations : \A e \in Nodes :
       (~regs[r].options.matchReappearance /\ e \in regs[r].elementInvocationMap)
       => TimesProcessed(r, e)' = TimesProcessed(r, e)]_vars

\* C4 witness: an element first seen by the initial scan of the observing
\* registration (matchReappearance false) was reinserted under the scope
\* root, the batch was delivered, and it has still been processed once.
C4_Witness ==
  \E r \in Registrations : \E e \in Nodes :
    /\ r = observer.reg
    /\ ~regs[r].options.matchReappearance
    /\ TimesProcessedBy(r, e, "scan") = 1
    /\ TimesInserted(r, e) >= 1
    /\ TimesProcessed(r, e) = 1

\* C5 (as stated): with matchReappearance true, an element the registration
\* has already processed is processed once more for each delivered
\* reinsertion under the scope root.
C5_ReprocessedOnEachReinsertion ==
  \A r \in Registrations : \A e \in Nodes :
    (/\ regs[r].options.matchReappearance
     /\ TimesProcessedBy(r, e, "scan") = 1)
    => TimesProcessedBy(r, e, "mutation") = TimesInserted(r, e)

\* C6: with matchExisting false the registration call marks no element seen
\* and processes none; whatever the registration ever sees or processes was
\* appended after the call, so the elements present at the call that are
\* not appended again are never processed.
C6_NoExistingWhenDisabled ==
  \A r \in Registrations :
    ~regs[r].options.matchExisting
    => /\ regs[r].elementInvocationMap \subseteq AppendedSince(r)
       /\ \A i \in EntriesOf(r) :
            /\ pipelineLog[i].source = "mutation"
            /\ pipelineLog[i].element \in AppendedSince(r)

\* C6 witness: a registration with matchExisting false made while two
\* elements matched; one new matching element was appended and delivered;
\* it is the only element seen and processed.
C6_Witness ==
  \E r \in Registrations :
    /\ ~regs[r].options.matchExisting
    /\ Len(atRegistration[r].matching) = 2
    /\ AppendedSince(r) = {"i3"}
    /\ regs[r].elementInvocationMap = {"i3"}
    /\ ElementsOf(r, pipelineLog) = <<"i3">>

\* C7 (as stated): for every registration, a matching element whose
\* insertion under that registration's scope root has been delivered is in
\* that registration's seen-set and went through that registration's
\* pipeline.
C7_EveryRegistrationObserves ==
  \A r \in Registrations : \A e \in Nodes :
    (/\ TimesInserted(r, e) >= 1
     /\ nodeType(e) = ELEMENT_NODE /\ matches(e, regs[r].selector))
    => /\ e \in regs[r].elementInvocationMap
       /\ TimesProcessedBy(r, e, "mutation") + TimesProcessedBy(r, e, "scan") >= 1

\* C8 (as stated): the initial scan marks and processes only elements inside
\* the subtree of the registration's scope root.
C8_ScanConfinedToRoot ==
  \A i \in 1..Len(pipelineLog) :
    pipelineLog[i].source = "scan"
    => pipelineLog[i].element \in atRegistration[pipelineLog[i].reg].scope

\* C9 (as stated): the value returned by a chained map (filter) is the
\* sequence of the map outputs (the passing elements) of the elements
\* processed so far, in encounter order.
C9_MapFilterResultAccumulates ==
  \A r \in Registrations :
    Len(regs[r].operations) = 1
    => LET op == regs[r].operations[1]
           elements == ElementsOf(r, pipelineLog)
       IN  /\ op.name = "map" => returned[r] = Arr(MapItems(op.func, elements))
           /\ op.name = "filter" => returned[r] = Arr(FilterItems(op.func, elements))

\* C10 (as stated): the value returned by a chained sort is the sequence of
\* all elements processed so far, ordered by the comparator.
C10_SortResultOrdered ==
  \A r \in Registrations :
    (Len(regs[r].operations) = 1 /\ regs[r].operations[1].name = "sort")
    => returned[r] = Arr(SortItems(regs[r].operations[1].func,
                                   ElementsOf(r, pipelineLog)))


\* C11: a call of any of forEach, map, filter, sort, reduce, every, some and
\* find on a handle appends exactly the pair (method name, function) to the
\* handle's pipeline and returns that same handle.
C11_ChainMethodAppendsAndReturnsHandle ==
  [][\A r \in Registrations, call \in ChainCalls :
       Chain(r, call[1], call[2]) =>
         /\ regs'[r].operations =
              Append(regs[r].operations, [name |-> call[1], func |-> call[2]])
         /\ returned'[r] = Handle(r)]_vars

\* C12: in every pipeline invocation the operations are applied in the
\* order they were declared, the first to the one-element sequence holding
\* the element and each further one to the output of the operation
\* declared just before it; the walk stops short of the last declared
\* operation only behind an operation that threw.
C12_AppliedInDeclaredOrder ==
  \A i \in 1..Len(pipelineLog) :
    LET element == pipelineLog[i].element
        operations == pipelineLog[i].operations
        steps == pipelineLog[i].outcome.steps
    IN  /\ Len(steps) <= Len(operations)
        /\ \A k \in 1..Len(steps) :
             /\ steps[k].operation = operations[k]
             /\ steps[k].input = IF k = 1 THEN Arr(<<element>>)
                                          ELSE steps[k - 1].output
        /\ Len(steps) < Len(operations) =>
             (steps # <<>> /\ steps[Len(steps)].threw)

\* an element has been passed through a pipeline of two different
\* operations, and the second one was handed the output of the first
C12_Witness ==
  \E i \in 1..Len(pipelineLog) :
    LET operations == pipelineLog[i].operations
        steps == pipelineLog[i].outcome.steps
    IN  /\ Len(operations) = 2
        /\ operations[1].name # operations[2].name
        /\ Len(steps) = 2
        /\ steps[2].operation = operations[2]
        /\ steps[2].input = steps[1].output

\* C13: with matchExisting true, every element that matched the selector
\* under the scope root when the registration call was made has been
\* processed exactly once by that call's scan, and every such processing
\* precedes every processing of an element inserted later.
C13_ExistingOnceBeforeInserted ==
  \A r \in Registrations :
    regs[r].options.matchExisting =>
      /\ \A e \in Range(atRegistration[r].matching) :
           TimesProcessedBy(r, e, "scan") = 1
      /\ \A i, j \in EntriesOf(r) :
           (pipelineLog[i].source = "scan" /\ pipelineLog[j].source = "mutation")
             => i < j

\* two elements matched at registration, and an element inserted later has
\* been processed by the same registration
C13_Witness ==
  \E r \in Registrations :
    /\ regs[r].options.matchExisting
    /\ Len(atRegistration[r].matching) = 2
    /\ \E j \in EntriesOf(r) :
         /\ pipelineLog[j].source = "mutation"
         /\ pipelineLog[j].element \notin Range(atRegistration[r].matching)

\* C14: there is never more than one mutation subscription: none before
\* the first registration call, and from then on the one the first call
\* installed on the first call's scope root, whatever calls follow.
C14_OneSubscriptionOfFirstCall ==
  IF regs = <<>>
    THEN observer = NoObserver
    ELSE observer = [reg |-> 1, target |-> regs[1].options.rootElement]

\* a second registration with another scope root has been made, and the
\* subscription is still the first call's, on the first call's root
C14_Witness ==
  /\ Len(regs) >= 2
  /\ regs[2].options.rootElement # regs[1].options.rootElement
  /\ observer.reg = 1
  /\ observer.target = regs[1].options.rootElement

\* C15: no step changes a pipeline invocation that has already been made
\* (an operation appended later is not applied to the element after the
\* fact), and every new invocation walks the registration's pipeline as it
\* stands at that moment: each operation appended so far is applied, or an
\* operation declared before it threw.
C15_PipelineReadAfresh ==
  [][/\ Len(pipelineLog') >= Len(pipelineLog)
     /\ \A i \in 1..Len(pipelineLog) : pipelineLog'[i] = pipelineLog[i]
     /\ \A i \in (Len(pipelineLog) + 1)..Len(pipelineLog') :
          LET r == pipelineLog'[i].reg
              steps == pipelineLog'[i].outcome.steps
              operations == IF r \in Registrations THEN regs[r].operations
                                                   ELSE <<>>
          IN  /\ pipelineLog'[i].operations = operations
              /\ \A k \in 1..Len(operations) :
                   \/ k <= Len(steps) /\ steps[k].operation = operations[k]
                   \/ \E j \in 1..(k - 1) : j <= Len(steps) /\ steps[j].threw
    ]_vars

\* an element was processed while the pipeline was empty, an operation was
\* appended afterwards and applied to an element processed later, and the
\* earlier invocation still shows no operation applied
C15_Witness ==
  \E r \in Registrations :
    \E i, j \in EntriesOf(r) :
      /\ i < j
      /\ pipelineLog[i].operations = <<>>
      /\ pipelineLog[i].outcome.steps = <<>>
      /\ pipelineLog[j].operations # <<>>
      /\ pipelineLog[j].operations = regs[r].operations
      /\ Len(pipelineLog[j].outcome.steps) = Len(pipelineLog[j].operations)

\* C16: in every new pipeline invocation an operation that threw is the
\* last one applied to the element, and the exception leaves the
\* invocation: the invocation ends as thrown, and it is the last one the
\* enclosing registration call or notification callback makes.
C16_ThrowEndsPipelineAndCaller ==
  [][\A i \in (Len(pipelineLog) + 1)..Len(pipelineLog') :
       LET outcome == pipelineLog'[i].outcome
       IN  /\ \A k \in 1..Len(outcome.steps) :
                outcome.steps[k].threw =>
                  (k = Len(outcome.steps) /\ outcome.threw)
           /\ outcome.threw => i = Len(pipelineLog')
    ]_vars

\* the first of two declared operations threw on an inserted element, and
\* the second one was not applied to it
C16_Witness ==
  \E i \in 1..Len(pipelineLog) :
    /\ pipelineLog[i].source = "mutation"
    /\ Len(pipelineLog[i].operations) = 2
    /\ Len(pipelineLog[i].outcome.steps) = 1
    /\ pipelineLog[i].outcome.steps[1].threw
    /\ pipelineLog[i].outcome.threw

\* C17: the notification callback never invokes the pipeline for, and never
\* puts into the seen-set, an added node that is not an element or does not
\* match the selector; and a node it skips does not keep it from the other
\* added nodes: as long as no invocation has thrown, every matching element
\* among the added nodes delivered to the subscription is in the seen-set.
C17_NonMatchingAddedNodesSkipped ==
  /\ \A i \in 1..Len(pipelineLog) :
       pipelineLog[i].source = "mutation" =>
         /\ nodeType(pipelineLog[i].element) = ELEMENT_NODE
         /\ matches(pipelineLog[i].element, regs[pipelineLog[i].reg].selector)
  /\ \A r \in Registrations :
       /\ \A n \in regs[r].elementInvocationMap :
            nodeType(n) = ELEMENT_NODE /\ matches(n, regs[r].selector)
       /\ (/\ r = observer.reg
           /\ \A i \in EntriesOf(r) : ~pipelineLog[i].outcome.threw)
          => \A k \in 1..Len(delivered[r]) :
               (/\ delivered[r][k].underRoot
                /\ nodeType(delivered[r][k].node) = ELEMENT_NODE
                /\ matches(delivered[r][k].node, regs[r].selector))
               => delivered[r][k].node \in regs[r].elementInvocationMap

\* a text node and, right after it, a matching element were added and
\* delivered: the text node was skipped, the element behind it processed
C17_Witness ==
  \E r \in Registrations :
    /\ r = observer.reg
    /\ \E k \in 1..(Len(delivered[r]) - 1) :
         /\ nodeType(delivered[r][k].node) # ELEMENT_NODE
         /\ delivered[r][k].underRoot
         /\ delivered[r][k].node \notin regs[r].elementInvocationMap
         /\ \A i \in EntriesOf(r) :
              pipelineLog[i].element # delivered[r][k].node
         /\ TimesProcessedBy(r, delivered[r][k + 1].node, "mutation") >= 1

\* C18: in every pipeline invocation, an operation declared right after a
\* forEach that was applied is applied too, and receives the same sequence
\* the forEach received.
C18_ForEachPassesAccumulatorThrough ==
  \A i \in 1..Len(pipelineLog) :
    LET operations == pipelineLog[i].operations
        steps == pipelineLog[i].outcome.steps
    IN  \A k \in 1..(Len(operations) - 1) :
          (k <= Len(steps) /\ operations[k].name = "forEach")
            => /\ k + 1 <= Len(steps)
               /\ steps[k + 1].input = steps[k].input

\* C19: no step takes an element out of a registration's seen-set: what is
\* marked seen stays marked, whichever call or delivery comes next.
C19_SeenSetOnlyGrows ==
  [][\A r \in Registrations :
       regs[r].elementInvocationMap \subseteq regs'[r].elementInvocationMap
    ]_vars

\* an element marked seen is out of the document, nothing waits for
\* delivery, another element has been processed from a notification, and
\* the removed one is still marked
C19_Witness ==
  \E r \in Registrations :
    \E e \in regs[r].elementInvocationMap :
      /\ parentOf(children, e) = NoNode
      /\ recordQueue = <<>>
      /\ \E i \in EntriesOf(r) :
           /\ pipelineLog[i].source = "mutation"
           /\ pipelineLog[i].element # e

\* C20: an element whose pipeline invocation threw is in the seen-set of
\* its registration, and with matchReappearance false it has been passed
\* through that registration's pipeline exactly once, whatever removals
\* and reinsertions have followed.
C20_FailedProcessingNeverRetried ==
  \A i \in 1..Len(pipelineLog) :
    LET r == pipelineLog[i].reg
        element == pipelineLog[i].element
    IN  pipelineLog[i].outcome.threw =>
          /\ element \in regs[r].elementInvocationMap
          /\ ~regs[r].options.matchReappearance => TimesProcessed(r, element) = 1

\* with matchReappearance false the pipeline threw on an element, the
\* element was inserted anew, the insertion was delivered, and the element
\* was not processed a second time
C20_Witness ==
  \E i \in 1..Len(pipelineLog) :
    LET r == pipelineLog[i].reg
        element == pipelineLog[i].element
    IN  /\ pipelineLog[i].outcome.threw
        /\ ~regs[r].options.matchReappearance
        /\ r = observer.reg
        /\ TimesInserted(r, element) >= 2
        /\ TimesProcessed(r, element) = 1

\* C21: a delivery of notification records marks seen, and passes through
\* the pipeline, only nodes that one of the delivered records lists among
\* its added nodes: a descendant that came in inside an added subtree is
\* neither marked nor processed by that delivery.
C21_OnlyListedAddedNodesExamined ==
  [][LET listed == UNION {Range(recordQueue[m].addedNodes) :
                            m \in 1..Len(recordQueue)}
     IN  /\ \A i \in (Len(pipelineLog) + 1)..Len(pipelineLog') :
              pipelineLog'[i].source = "mutation" =>
                pipelineLog'[i].element \in listed
         /\ \A r \in Registrations :
              (regs'[r].elementInvocationMap \ regs[r].elementInvocationMap)
                \subseteq listed
    ]_vars

\* a wrapper that does not match, holding a matching element that was not
\* in the document at registration, has been inserted under the observed
\* scope root and the record delivered: the element is in the document,
\* unseen and unprocessed
C21_Witness ==
  \E r \in Registrations :
    /\ r = observer.reg
    /\ recordQueue = <<>>
    /\ \E k \in 1..Len(delivered[r]) :
         /\ delivered[r][k].node = "w"
         /\ delivered[r][k].underRoot
    /\ ~matches("w", regs[r].selector)
    /\ \E e \in SeqToSet(children["w"]) :
         /\ nodeType(e) = ELEMENT_NODE
         /\ matches(e, regs[r].selector)
         /\ e \notin atRegistration[r].scope
         /\ regs[r].options.rootElement \in inclusiveAncestors(children, e)
         /\ e \notin regs[r].elementInvocationMap
         /\ TimesProcessed(r, e) = 0

====
